---- MODULE Spec2Model ----
(***************************************************************************)
(* Trips editor (editor_trips.py): the JSON document of trips, the form    *)
(* editor built on it and the segment-occupancy table                      *)
(* (TripsEditorApp._refresh_segments_view).                                *)
(*                                                                         *)
(* Python values are tagged records, so that isinstance tests, truthiness, *)
(* str() and int() are computed as Python computes them.  List indices are *)
(* Python's (0-based); TLA+ sequences are 1-based, so element i of a       *)
(* Python list q is q[i + 1].                                              *)
(***************************************************************************)
EXTENDS Integers, Sequences, FiniteSets, TLC

VARIABLES
    data,            \* self.data: the document, a dict {"trips": [...]}
    current_index,   \* self.current_index: None or an index into trips
    dirty,           \* self.dirty
    undo_stack,      \* self._undo_stack: snapshots of data
    redo_stack,      \* self._redo_stack
    stops_listbox,   \* rows of self.stops_listbox (form copy of the stops)
    bookings_rows,   \* rows of the self.bookings Treeview
    seg_tree,        \* rows of the self.seg_tree Treeview (From, To, Used, Free)
    raised,          \* TRUE when the last handler ended by an uncaught exception
    last_op,         \* the handler that ran last: [op |-> name, done |-> it went through]
    calls,           \* direct calls of _refresh_segments_view so far: 0, 1, 2 = more
    file_path,       \* self.file_path: None or the path of the open file
    saved            \* the document as last loaded from or written to a file

vars == <<data, current_index, dirty, undo_stack, redo_stack,
          stops_listbox, bookings_rows, seg_tree, raised, last_op, calls,
          file_path, saved>>

-----------------------------------------------------------------------------
(* Bounds of the model *)

MaxStops == 3        \* longest stops list drawn as an input
MaxBookings == 2     \* longest bookings list drawn as an input
MaxTrips == 2        \* most trips the document is grown to
MaxHistory == 2      \* most snapshots the undo and redo stacks hold together
MaxListbox == 3      \* most rows the stops listbox is grown to

-----------------------------------------------------------------------------
(* Python values *)

S(s) == [t |-> "str", s |-> s]
I(n) == [t |-> "int", n |-> n]
L(q) == [t |-> "list", l |-> q]
D(f) == [t |-> "dict", d |-> f]
None == [t |-> "none"]

EmptyDict == D(<<>>)

IsList(v) == v.t = "list"
IsDict(v) == v.t = "dict"

\* bool(v)
Truthy(v) ==
    CASE v.t = "none" -> FALSE
      [] v.t = "int"  -> v.n # 0
      [] v.t = "str"  -> v.s # ""
      [] v.t = "list" -> Len(v.l) > 0
      [] v.t = "dict" -> DOMAIN v.d # {}

\* dict.get(key, default)
Get(v, key, default) == IF key \in DOMAIN v.d THEN v.d[key] ELSE default

\* decimal numerals of the integers the model uses
DecStr == <<"0", "1", "2", "3", "4", "5", "6", "7", "8", "9", "10", "11">>
IntToStr(n) == IF n < 0 THEN "-" \o DecStr[(-n) + 1] ELSE DecStr[n + 1]
NumeralRange == (1 - Len(DecStr)) .. (Len(DecStr) - 1)

\* str(v) for the scalar values that occur as stop and booking names
PyStr(v) ==
    CASE v.t = "str"  -> v.s
      [] v.t = "int"  -> IntToStr(v.n)
      [] v.t = "none" -> "None"

\* int(v): [ok |-> TRUE, n |-> value], or ok = FALSE when int() raises
\* (ValueError for a non-numeral string, TypeError for None, list, dict)
PyInt(v) ==
    CASE v.t = "int" -> [ok |-> TRUE, n |-> v.n]
      [] v.t = "str" ->
            IF \E n \in NumeralRange : IntToStr(n) = v.s
            THEN [ok |-> TRUE, n |-> CHOOSE n \in NumeralRange : IntToStr(n) = v.s]
            ELSE [ok |-> FALSE, n |-> 0]
      [] OTHER -> [ok |-> FALSE, n |-> 0]

Max(a, b) == IF a >= b THEN a ELSE b

-----------------------------------------------------------------------------
(* _refresh_segments_view *)

\* capacity = int(trip.get("capacity", 0) or 0), 0 when int() raises
Capacity(trip) ==
    LET g == Get(trip, "capacity", I(0))
        v == IF Truthy(g) THEN g ELSE I(0)
        r == PyInt(v)
    IN  IF r.ok THEN r.n ELSE 0

\* variant: idx_map.setdefault(str(s), i), the first equal key is kept
RECURSIVE IdxMapFirst(_, _)
IdxMapFirst(stops, n) ==
    IF n = 0 THEN <<>>
    ELSE LET m == IdxMapFirst(stops, n - 1)
             key == PyStr(stops[n])
         IN  [x \in (DOMAIN m) \cup {key} |-> IF x \in DOMAIN m THEN m[x] ELSE n - 1]

\* idx_map = {str(s): i for i, s in enumerate(stops)}, built left to right:
\* a later equal key overwrites the earlier entry
RECURSIVE IdxMapUpTo(_, _)
IdxMapUpTo(stops, n) ==
    IF n = 0 THEN <<>>
    ELSE LET m == IdxMapUpTo(stops, n - 1)
             key == PyStr(stops[n])
         IN  [x \in (DOMAIN m) \cup {key} |-> IF x = key THEN n - 1 ELSE m[x]]

IdxMap(stops) == IdxMapUpTo(stops, Len(stops))

\* variant: the range is (i, j) as booked, never swapped
BookingBodyDirected(b, idx_map) ==
    IF ~IsDict(b) THEN [kind |-> "raise"]
    ELSE LET frm == PyStr(Get(b, "from", S("")))
             to  == PyStr(Get(b, "to", S("")))
         IN  IF frm \notin DOMAIN idx_map \/ to \notin DOMAIN idx_map
             THEN [kind |-> "skip"]
             ELSE LET i == idx_map[frm]
                      j == idx_map[to]
                  IN  IF i = j THEN [kind |-> "skip"]
                      ELSE [kind |-> "range", a |-> i, c |-> j]

\* variant: a name missing from idx_map resolves to index 0 (idx_map.get(x, 0))
BookingBodyDefaultIdx(b, idx_map) ==
    IF ~IsDict(b) THEN [kind |-> "raise"]
    ELSE LET frm == PyStr(Get(b, "from", S("")))
             to  == PyStr(Get(b, "to", S("")))
             i == IF frm \in DOMAIN idx_map THEN idx_map[frm] ELSE 0
             j == IF to \in DOMAIN idx_map THEN idx_map[to] ELSE 0
         IN  IF i = j THEN [kind |-> "skip"]
             ELSE IF i < j THEN [kind |-> "range", a |-> i, c |-> j]
                           ELSE [kind |-> "range", a |-> j, c |-> i]

\* body of the try block for one booking b: a range (a, c), a skip
\* (continue), or an exception raised by b.get on a value that is no dict
BookingBody(b, idx_map) ==
    IF ~IsDict(b) THEN [kind |-> "raise"]
    ELSE LET frm == PyStr(Get(b, "from", S("")))
             to  == PyStr(Get(b, "to", S("")))
         IN  IF frm \notin DOMAIN idx_map \/ to \notin DOMAIN idx_map
             THEN [kind |-> "skip"]
             ELSE LET i == idx_map[frm]
                      j == idx_map[to]
                  IN  IF i = j THEN [kind |-> "skip"]
                      ELSE IF i < j THEN [kind |-> "range", a |-> i, c |-> j]
                                    ELSE [kind |-> "range", a |-> j, c |-> i]

\* variant: no except clause around the body of the loop
TryBookingNoCatch(b, idx_map) == BookingBody(b, idx_map)

\* try: ... except Exception: continue
TryBooking(b, idx_map) ==
    LET r == BookingBody(b, idx_map)
    IN  IF r.kind = "raise" THEN [kind |-> "skip"] ELSE r

\* the loop over bookings: [ranges, raised]
RECURSIVE RangesUpTo(_, _, _)
RangesUpTo(bookings, idx_map, n) ==
    IF n = 0 THEN [ranges |-> <<>>, raised |-> FALSE]
    ELSE LET prev == RangesUpTo(bookings, idx_map, n - 1)
             r == TryBooking(bookings[n], idx_map)
         IN  IF prev.raised THEN prev
             ELSE IF r.kind = "raise" THEN [ranges |-> prev.ranges, raised |-> TRUE]
             ELSE IF r.kind = "skip" THEN prev
             ELSE [ranges |-> Append(prev.ranges, <<r.a, r.c>>), raised |-> FALSE]

\* variant: the span is closed at its upper end (a <= k <= c)
RECURSIVE UsedClosed(_, _, _)
UsedClosed(ranges, k, n) ==
    IF n = 0 THEN 0
    ELSE UsedClosed(ranges, k, n - 1)
         + (IF ranges[n][1] <= k /\ k <= ranges[n][2] THEN 1 ELSE 0)

\* used = sum(1 for a, c in ranges if a <= k < c)
RECURSIVE Used(_, _, _)
Used(ranges, k, n) ==
    IF n = 0 THEN 0
    ELSE Used(ranges, k, n - 1)
         + (IF ranges[n][1] <= k /\ k < ranges[n][2] THEN 1 ELSE 0)

\* variant: free is not clamped at 0
FreeNoClamp(capacity, used) == IF capacity # 0 THEN capacity - used ELSE 0

\* free = max(0, capacity - used) if capacity else 0
Free(capacity, used) == IF capacity # 0 THEN Max(0, capacity - used) ELSE 0

\* variant: the rows of the previous computation are kept
SegTreeKeep(rows) == rows

\* self.seg_tree.delete(*self.seg_tree.get_children())
SegTreeDelete(rows) == <<>>

\* variant: the last segment is left out (range(len(stops) - 2))
SegmentRowsShort(stops, ranges, capacity) ==
    [k1 \in 1 .. (Len(stops) - 2) |->
        LET used == Used(ranges, k1 - 1, Len(ranges))
        IN  [from |-> stops[k1], to |-> stops[k1 + 1],
             used |-> used, free |-> Free(capacity, used)]]

\* for k in range(len(stops) - 1): insert (stops[k], stops[k + 1], used, free)
SegmentRows(stops, ranges, capacity) ==
    [k1 \in 1 .. (Len(stops) - 1) |->
        LET used == Used(ranges, k1 - 1, Len(ranges))
        IN  [from |-> stops[k1], to |-> stops[k1 + 1],
             used |-> used, free |-> Free(capacity, used)]]

\* _refresh_segments_view(trip) on a seg_tree holding rows: the rows it
\* leaves in seg_tree, and whether the call raised
RefreshSegmentsView(rows, trip) ==
    LET cleared == SegTreeDelete(rows)
    IN
    IF ~Truthy(trip) THEN [rows |-> cleared, raised |-> FALSE]
    ELSE
    LET capacity == Capacity(trip)
        stops == Get(trip, "stops", L(<<>>))
    IN  IF ~IsList(stops) \/ Len(stops.l) < 2
        THEN [rows |-> cleared, raised |-> FALSE]
        ELSE
        LET idx_map == IdxMap(stops.l)
            got == Get(trip, "bookings", L(<<>>))
            bookings == IF IsList(got) THEN got.l ELSE <<>>
            rr == RangesUpTo(bookings, idx_map, Len(bookings))
        IN  IF rr.raised THEN [rows |-> cleared, raised |-> TRUE]
            ELSE [rows |-> cleared \o SegmentRows(stops.l, rr.ranges, capacity),
                  raised |-> FALSE]

-----------------------------------------------------------------------------
(* The occupancy computation applied to one trip held by the editor.      *)
(* The document holds one selected trip of any shape a loaded JSON file    *)
(* can give it; the only handler is _refresh_segments_view on that trip.   *)

StopNames == {"A", "B", "C"}
AbsentName == "Z"
BookingNames == StopNames \cup {AbsentName}

SeqsUpTo(X, n) == UNION {[1 .. m -> X] : m \in 0 .. n}
Without(f, key) == [x \in (DOMAIN f) \ {key} |-> f[x]]

StopsInputs ==
    {L(q) : q \in SeqsUpTo({S(n) : n \in StopNames}, MaxStops)} \cup {None}

Booking(f, t) == D([name |-> S("p"), from |-> S(f), to |-> S(t)])

\* booking entries: two between different stop names (every order of the
\* stops is drawn, so each is booked along and against the route), an entry
\* that is no record, a record without from/to, a degenerate booking and
\* one naming a stop that no trip has
BookingEntryInputs ==
    <<Booking("A", "B"), S("p"), Booking("B", "C"), D([name |-> S("p")]),
      Booking("A", "A"), Booking("A", AbsentName)>>

\* the lists of entries of at most n entries, each drawn in the order of
\* BookingEntryInputs (one list per multiset of entries)
EntryLists(n) ==
    UNION {{[i \in 1 .. m |-> BookingEntryInputs[f[i]]] :
               f \in {g \in [1 .. m -> DOMAIN BookingEntryInputs] :
                         \A i \in 1 .. (m - 1) : g[i] <= g[i + 1]}} :
           m \in 0 .. n}

BookingsInputs == {L(q) : q \in EntryLists(MaxBookings)} \cup {None}

CapacityInputs == {I(0), I(-1), I(1), I(2), S("x"), S("2")}

\* rows a previously shown trip left in seg_tree
StaleRows == <<[from |-> S("A"), to |-> S("B"), used |-> 1, free |-> 1]>>

\* a trip as loaded from a file; "absent" drops the key from the dict
Absent == [t |-> "absent"]
TripInput(cap, stops, bookings) ==
    LET full == [capacity |-> cap, stops |-> stops, bookings |-> bookings]
    IN  D([k \in {x \in DOMAIN full : full[x] # Absent} |-> full[k]])

TripInputs ==
    {TripInput(cap, stops, bookings) :
        cap \in CapacityInputs \cup {Absent},
        stops \in StopsInputs \cup {Absent},
        bookings \in BookingsInputs \cup {Absent}}

Trips == Get(data, "trips", L(<<>>)).l
SelectedTrip == Trips[current_index.n + 1]

InitCalc ==
    /\ \E trip \in TripInputs : data = D([trips |-> L(<<trip>>)])
    /\ current_index = I(0)
    /\ dirty = FALSE
    /\ undo_stack = <<>>
    /\ redo_stack = <<>>
    /\ stops_listbox = <<>>
    /\ bookings_rows = <<>>
    /\ seg_tree = StaleRows
    /\ raised = FALSE
    /\ last_op = [op |-> "init", done |-> TRUE]
    /\ calls = 0
    /\ file_path = S("a.json")
    /\ saved = data

\* what the body of _refresh_segments_view would leave in trip had it read
\* the bookings with trip.setdefault("bookings", []) as add_booking does
TripSetdefault(trip) ==
    IF IsDict(trip) /\ "bookings" \notin DOMAIN trip.d
    THEN D([k \in (DOMAIN trip.d) \cup {"bookings"} |->
              IF k = "bookings" THEN L(<<>>) ELSE trip.d[k]])
    ELSE trip

\* the trip as _refresh_segments_view leaves it: capacity, stops and
\* bookings are read with trip.get(key, default), which stores nothing,
\* and idx_map, ranges and the rows are new objects
TripAfterRefresh(trip) == trip

refresh_segments_view ==
    /\ LET r == RefreshSegmentsView(seg_tree, SelectedTrip)
       IN  /\ seg_tree' = r.rows
           /\ raised' = r.raised
    /\ data' = D([trips |-> L([Trips EXCEPT ![current_index.n + 1] =
                                   TripAfterRefresh(SelectedTrip)])])
    /\ last_op' = [op |-> "_refresh_segments_view", done |-> TRUE]
    /\ calls' = IF calls = 0 THEN 1 ELSE 2
    /\ UNCHANGED <<current_index, dirty, undo_stack, redo_stack,
                   stops_listbox, bookings_rows, file_path, saved>>

NextCalc == refresh_segments_view

SpecCalc == InitCalc /\ [][NextCalc]_vars

-----------------------------------------------------------------------------
(* The editor: document, selection, form widgets and the undo/redo stacks *)

UndoMax == 50

\* str.strip() on the strings the handlers are given
Strip(x) ==
    CASE x = " "  -> ""
      [] x = " A" -> "A"
      [] OTHER    -> x

SetKey(v, key, val) ==
    D([k \in (DOMAIN v.d) \cup {key} |-> IF k = key THEN val ELSE v.d[k]])

ListSet(q, i, x) == [q EXCEPT ![i + 1] = x]
ListDel(q, i) == [j \in 1 .. (Len(q) - 1) |-> IF j < i + 1 THEN q[j] ELSE q[j + 1]]

\* self.data["trips"]
TripsOf(d) == d.d.trips.l
WithTrips(d, q) == SetKey(d, "trips", L(q))

\* the state of the application as one record
State ==
    [data |-> data, current_index |-> current_index, dirty |-> dirty,
     undo_stack |-> undo_stack, redo_stack |-> redo_stack,
     stops_listbox |-> stops_listbox, bookings_rows |-> bookings_rows,
     seg_tree |-> seg_tree, file_path |-> file_path, saved |-> saved,
     raised |-> FALSE, done |-> FALSE]

\* json.loads(json.dumps(v)): every list and dict is written out and built
\* anew from its parts; str, int and None (null) come back as they were
RECURSIVE JsonRoundTrip(_)
JsonRoundTrip(v) ==
    CASE v.t = "list" -> L([i \in DOMAIN v.l |-> JsonRoundTrip(v.l[i])])
      [] v.t = "dict" -> D([k \in DOMAIN v.d |-> JsonRoundTrip(v.d[k])])
      [] OTHER        -> v

\* _snapshot
Snapshot(d) == JsonRoundTrip(d)

\* _push_undo
PushUndo(st) ==
    LET pushed == Append(st.undo_stack, Snapshot(st.data))
        kept == IF Len(pushed) > UndoMax
                THEN SubSeq(pushed, Len(pushed) - UndoMax + 1, Len(pushed))
                ELSE pushed
    IN  [st EXCEPT !.undo_stack = kept, !.redo_stack = <<>>]

\* _reload_bookings: one row (name, from, to) per booking that is a record
RECURSIVE ReloadRows(_, _)
ReloadRows(q, n) ==
    IF n = 0 THEN <<>>
    ELSE IF IsDict(q[n])
         THEN Append(ReloadRows(q, n - 1),
                     <<Strip(PyStr(Get(q[n], "name", S("")))),
                       Strip(PyStr(Get(q[n], "from", S("")))),
                       Strip(PyStr(Get(q[n], "to", S(""))))>>)
         ELSE ReloadRows(q, n - 1)

ReloadBookings(bookings) ==
    IF IsList(bookings) THEN ReloadRows(bookings.l, Len(bookings.l)) ELSE <<>>

\* the non-blank str(s).strip() of the stops, in order
RECURSIVE StopRows(_, _)
StopRows(q, n) ==
    IF n = 0 THEN <<>>
    ELSE LET ss == Strip(PyStr(q[n]))
         IN  IF ss # "" THEN Append(StopRows(q, n - 1), ss) ELSE StopRows(q, n - 1)

\* _load_trip_into_form(trip): clears the form, then fills it from trip
LoadTripIntoForm(st, trip) ==
    LET cleared == [st EXCEPT !.stops_listbox = <<>>,
                              !.bookings_rows = <<>>,
                              !.seg_tree = RefreshSegmentsView(st.seg_tree, None).rows]
    IN  IF ~Truthy(trip) THEN cleared
        ELSE LET stops == Get(trip, "stops", L(<<>>))
             IN  [cleared EXCEPT
                    !.stops_listbox = IF IsList(stops) THEN StopRows(stops.l, Len(stops.l))
                                      ELSE <<>>,
                    !.bookings_rows = ReloadBookings(Get(trip, "bookings", L(<<>>))),
                    !.seg_tree = RefreshSegmentsView(cleared.seg_tree, trip).rows]

\* refresh_ui: the trip list is redrawn; the form is cleared only when no
\* trip is selected
RefreshUi(st) ==
    IF st.current_index = None THEN LoadTripIntoForm(st, None) ELSE st

Raise(st) == [st EXCEPT !.raised = TRUE]
Done(st) == [st EXCEPT !.done = TRUE]

\* self.data["trips"][self.current_index] raises IndexError out of range
IndexOk(st) == st.current_index.n < Len(TripsOf(st.data))
CurrentTrip(st) == TripsOf(st.data)[st.current_index.n + 1]
WithCurrentTrip(st, trip) ==
    [st EXCEPT !.data = WithTrips(st.data, ListSet(TripsOf(st.data), st.current_index.n, trip))]

EmptyTrip ==
    D([id |-> S(""), date |-> S(""), direction |-> S("ida"), title |-> S(""),
       capacity |-> I(3), stops |-> L(<<>>), bookings |-> L(<<>>)])

\* new_trip
NewTrip(st0) ==
    LET st1 == PushUndo(st0)
        trips == Append(TripsOf(st1.data), EmptyTrip)
        st2 == [st1 EXCEPT !.data = WithTrips(st1.data, trips), !.dirty = TRUE]
        st3 == RefreshUi(st2)
        st4 == [st3 EXCEPT !.current_index = I(Len(trips) - 1)]
    IN  Done(LoadTripIntoForm(st4, EmptyTrip))

\* on_select_trip with row idx of the trip list selected
OnSelectTrip(st0, idx) ==
    LET st1 == [st0 EXCEPT !.current_index = I(idx)]
    IN  Done(LoadTripIntoForm(st1, TripsOf(st1.data)[idx + 1]))

\* add_stop with text typed in the stop box
AddStop(st0, text) ==
    LET st1 == PushUndo(st0)
        x == Strip(text)
    IN  IF x = "" THEN st1
        ELSE Done([st1 EXCEPT !.stops_listbox = Append(@, x), !.dirty = TRUE])

\* remove_stop with row sel of the stops listbox selected (None: no row)
RemoveStop(st0, sel) ==
    LET st1 == PushUndo(st0)
    IN  IF sel = None THEN st1
        ELSE Done([st1 EXCEPT !.stops_listbox = ListDel(@, sel.n), !.dirty = TRUE])

\* DATE_RE, the rewriting of a date such as 2026-2-3 and
\* datetime.date.fromisoformat, on the dates the form is given
DateReMatch(x) == x \in {"2026-02-03", "2026-02-30"}
NormalizedDate(x) == IF x = "2026-2-3" THEN "2026-02-03" ELSE x
IsCalendarDate(x) == x = "2026-02-03"

\* apply_trip_changes had it stored the title in the trip and set the
\* dirty flag before a validation that then fails
ApplyTripChangesWriteFirst(st0, f_id, f_date, f_direction, f_title, f_capacity) ==
    LET st1 == PushUndo(st0)
    IN  IF st1.current_index = None THEN st1
        ELSE IF ~IndexOk(st1) THEN Raise(st1)
        ELSE [WithCurrentTrip(st1, SetKey(CurrentTrip(st1), "title", S("draft")))
                EXCEPT !.dirty = TRUE]

\* apply_trip_changes with the form fields as typed
ApplyTripChanges(st0, f_id, f_date, f_direction, f_title, f_capacity) ==
    LET st1 == PushUndo(st0)
        tid == Strip(f_id)
        date == NormalizedDate(Strip(f_date))
        direction == Strip(f_direction)
        title == Strip(f_title)
        cap == PyInt(S(Strip(f_capacity)))
        stops == StopRows([i \in DOMAIN st1.stops_listbox |-> S(st1.stops_listbox[i])],
                          Len(st1.stops_listbox))
    IN  IF st1.current_index = None THEN st1
        ELSE IF tid = "" THEN st1
        ELSE IF ~DateReMatch(date) THEN st1
        ELSE IF ~IsCalendarDate(date) THEN st1
        ELSE IF direction \notin {"ida", "volta"} THEN st1
        ELSE IF ~cap.ok \/ cap.n <= 0 \/ cap.n > 10 THEN st1
        ELSE IF Len(stops) < 2 THEN st1
        ELSE IF ~IndexOk(st1) THEN Raise(st1)
        ELSE IF \E i \in 0 .. (Len(TripsOf(st1.data)) - 1) :
                    /\ i # st1.current_index.n
                    /\ Get(TripsOf(st1.data)[i + 1], "id", None) = S(tid)
             THEN st1
        ELSE LET t0 == CurrentTrip(st1)
                 t1 == SetKey(t0, "id", S(tid))
                 t2 == SetKey(t1, "date", S(date))
                 t3 == SetKey(t2, "direction", S(direction))
                 t4 == SetKey(t3, "title", S(title))
                 t5 == SetKey(t4, "capacity", I(cap.n))
                 t6 == SetKey(t5, "stops", L([i \in DOMAIN stops |-> S(stops[i])]))
                 st2 == [WithCurrentTrip(st1, t6) EXCEPT !.dirty = TRUE]
             IN  Done(RefreshUi(st2))

\* the bookings list of trip after trip.setdefault("bookings", []) and the
\* isinstance test
BookingsList(trip) ==
    LET got == Get(trip, "bookings", L(<<>>))
    IN  IF IsList(got) THEN got.l ELSE <<>>

NewBooking(name, frm, to) == D([name |-> S(name), from |-> S(frm), to |-> S(to)])

\* the tail shared by add_booking, update_booking and remove_booking: the
\* trip gets the new bookings list, then _reload_bookings and
\* _refresh_segments_view run on it and the dirty flag is set
StoreBookings(st, bookings) ==
    LET trip == SetKey(CurrentTrip(st), "bookings", L(bookings))
        st2 == WithCurrentTrip(st, trip)
    IN  Done([st2 EXCEPT !.bookings_rows = ReloadBookings(L(bookings)),
                         !.seg_tree = RefreshSegmentsView(st2.seg_tree, trip).rows,
                         !.dirty = TRUE])

\* add_booking with the booking fields as typed
AddBooking(st0, f_name, f_from, f_to) ==
    LET st1 == PushUndo(st0)
        name == Strip(f_name)
        frm == Strip(f_from)
        to == Strip(f_to)
    IN  IF st1.current_index = None THEN st1
        ELSE IF name = "" \/ frm = "" \/ to = "" THEN st1
        ELSE IF frm = to THEN st1
        ELSE IF ~IndexOk(st1) THEN Raise(st1)
        ELSE StoreBookings(st1, Append(BookingsList(CurrentTrip(st1)),
                                       NewBooking(name, frm, to)))

\* bookings = trip.get("bookings", []) followed by
\* "if not isinstance(bookings, list): bookings = []; trip["bookings"] = bookings":
\* a bookings value that is no list is replaced in the document by []
NormalizeBookings(st) ==
    LET trip == CurrentTrip(st)
    IN  IF "bookings" \in DOMAIN trip.d /\ ~IsList(trip.d.bookings)
        THEN WithCurrentTrip(st, SetKey(trip, "bookings", L(<<>>)))
        ELSE st

\* update_booking with row sel of the bookings table selected (None: no row)
UpdateBooking(st0, sel, f_name, f_from, f_to) ==
    LET st1 == PushUndo(st0)
        name == Strip(f_name)
        frm == Strip(f_from)
        to == Strip(f_to)
    IN  IF st1.current_index = None THEN st1
        ELSE IF sel = None THEN st1
        ELSE IF name = "" \/ frm = "" \/ to = "" THEN st1
        ELSE IF frm = to THEN st1
        ELSE IF ~IndexOk(st1) THEN Raise(st1)
        ELSE LET st2 == NormalizeBookings(st1)
                 bookings == BookingsList(CurrentTrip(st2))
             IN  IF sel.n < 0 \/ sel.n >= Len(bookings) THEN st2
                 ELSE StoreBookings(st2, ListSet(bookings, sel.n, NewBooking(name, frm, to)))

\* remove_booking with row sel of the bookings table selected (None: no row)
RemoveBooking(st0, sel) ==
    LET st1 == PushUndo(st0)
    IN  IF st1.current_index = None THEN st1
        ELSE IF sel = None THEN st1
        ELSE IF ~IndexOk(st1) THEN Raise(st1)
        ELSE LET st2 == NormalizeBookings(st1)
                 bookings == BookingsList(CurrentTrip(st2))
             IN  IF sel.n < 0 \/ sel.n >= Len(bookings) THEN st2
                 ELSE StoreBookings(st2, ListDel(bookings, sel.n))

ROUTE_IDA_DEFAULT ==
    <<"Paulo Afonso-BA", "Petrolândia-PE", "Floresta-PE", "Cabrobó-PE", "Salgueiro-PE">>

Reversed(q) == [i \in DOMAIN q |-> q[Len(q) + 1 - i]]

ROUTE_VOLTA_DEFAULT == Reversed(ROUTE_IDA_DEFAULT)

\* q with x appended unless q holds it
AppendNew(q, x) == IF \E i \in DOMAIN q : q[i] = x THEN q ELSE Append(q, x)

\* the stops of a template trip
TemplateStops(direction, extra) ==
    IF direction = "ida"
    THEN IF extra
         THEN AppendNew(AppendNew(ROUTE_IDA_DEFAULT, "Juazeiro do Norte-CE"), "Brejo Santo-CE")
         ELSE ROUTE_IDA_DEFAULT
    ELSE IF extra
         THEN Reversed(ROUTE_IDA_DEFAULT \o <<"Juazeiro do Norte-CE", "Brejo Santo-CE">>)
         ELSE ROUTE_VOLTA_DEFAULT

\* new_trip_template; choice is the answer to the first dialog ("cancel":
\* None, "yes": True, "no": False), extra the answer to the second
NewTripTemplate(st0, choice, extra) ==
    LET st1 == PushUndo(st0)
    IN  IF choice = "cancel" THEN st1
        ELSE
        LET direction == IF choice = "yes" THEN "ida" ELSE "volta"
            stops == TemplateStops(direction, extra)
            trip == D([id |-> S(""), date |-> S(""), direction |-> S(direction),
                       title |-> S(""), capacity |-> I(3),
                       stops |-> L([i \in DOMAIN stops |-> S(stops[i])]),
                       bookings |-> L(<<>>)])
            trips == Append(TripsOf(st1.data), trip)
            st2 == [st1 EXCEPT !.data = WithTrips(st1.data, trips), !.dirty = TRUE]
            st3 == RefreshUi(st2)
            st4 == [st3 EXCEPT !.current_index = I(Len(trips) - 1)]
        IN  Done(LoadTripIntoForm(st4, trip))

\* (id + "-copy").strip("-") on the ids the model copies
CopyableIds == {"", "t1", "t2"}
CopyId(x) ==
    CASE x = ""   -> "copy"
      [] x = "t1" -> "t1-copy"
      [] x = "t2" -> "t2-copy"

\* duplicate_trip
DuplicateTrip(st0) ==
    LET st1 == PushUndo(st0)
    IN  IF st1.current_index = None THEN st1
        ELSE IF ~IndexOk(st1) THEN Raise(st1)
        ELSE
        LET src == CurrentTrip(st1)
            dup == SetKey(JsonRoundTrip(src), "id", S(CopyId(Get(src, "id", S("")).s)))
            st2 == [st1 EXCEPT !.data = WithTrips(st1.data, Append(TripsOf(st1.data), dup)),
                               !.dirty = TRUE]
        IN  Done(RefreshUi(st2))

\* delete_trip; confirmed is the answer to the confirmation dialog
DeleteTrip(st0, confirmed) ==
    LET st1 == PushUndo(st0)
    IN  IF st1.current_index = None THEN st1
        ELSE IF ~IndexOk(st1) THEN Raise(st1)
        ELSE IF ~confirmed THEN st1
        ELSE
        LET st2 == [st1 EXCEPT
                      !.data = WithTrips(st1.data, ListDel(TripsOf(st1.data),
                                                           st1.current_index.n)),
                      !.current_index = None,
                      !.dirty = TRUE]
        IN  Done(RefreshUi(st2))

\* the strings of the documents in Python's order of str (by code point)
StrOrder ==
    <<"", "2026-02-03", "copy", "ida", "t1", "t1-copy", "t2", "t2-copy", "volta">>

StrRank(x) == CHOOSE i \in DOMAIN StrOrder : StrOrder[i] = x

\* the key of sort_trips: (t.get("date", ""), t.get("direction", ""), t.get("id", ""))
SortKey(t) ==
    <<StrRank(Get(t, "date", S("")).s), StrRank(Get(t, "direction", S("")).s),
      StrRank(Get(t, "id", S("")).s)>>

\* a < b for two keys, as Python compares tuples
KeyLess(a, b) ==
    \/ a[1] < b[1]
    \/ a[1] = b[1] /\ a[2] < b[2]
    \/ a[1] = b[1] /\ a[2] = b[2] /\ a[3] < b[3]

\* x put into the sorted list q behind every element that is not greater
InsertSorted(q, x) ==
    LET before == {i \in DOMAIN q : ~KeyLess(SortKey(x), SortKey(q[i]))}
        n == Cardinality(before)
    IN  SubSeq(q, 1, n) \o <<x>> \o SubSeq(q, n + 1, Len(q))

\* list.sort(key=...): stable, equal keys keep their order
RECURSIVE SortedUpTo(_, _)
SortedUpTo(q, n) ==
    IF n = 0 THEN <<>> ELSE InsertSorted(SortedUpTo(q, n - 1), q[n])

\* sort_trips
SortTrips(st0) ==
    LET trips == TripsOf(st0.data)
        st1 == [st0 EXCEPT !.data = WithTrips(st0.data, SortedUpTo(trips, Len(trips))),
                           !.dirty = TRUE]
    IN  Done(RefreshUi(st1))

\* open_file; discard is the answer of confirm_discard_if_dirty when it
\* asks, path the file chosen (None: the dialog was cancelled), loaded what
\* safe_load_json returns (None: it raised)
OpenFile(st0, discard, path, loaded) ==
    IF st0.dirty /\ ~discard THEN st0
    ELSE IF path = None THEN st0
    ELSE IF loaded = None THEN st0
    ELSE Done(RefreshUi([st0 EXCEPT !.data = loaded,
                                    !.file_path = path,
                                    !.current_index = None,
                                    !.dirty = FALSE,
                                    !.saved = loaded]))

\* the try block of save_file had it cleared the dirty flag before the
\* write instead of after it
WriteFileClearFirst(st, written) ==
    IF written THEN Done([st EXCEPT !.dirty = FALSE, !.saved = st.data])
    ELSE [st EXCEPT !.dirty = FALSE]

\* the try block of save_file; written tells whether safe_save_json
\* returned (TRUE) or raised (FALSE)
WriteFile(st, written) ==
    IF written THEN Done([st EXCEPT !.dirty = FALSE, !.saved = st.data]) ELSE st

\* save_file_as; path is the file chosen (None: the dialog was cancelled)
SaveFileAs(st0, path, written) ==
    IF path = None THEN st0
    ELSE WriteFile([st0 EXCEPT !.file_path = path], written)

\* save_file
SaveFile(st0, path, written) ==
    IF st0.file_path = None THEN SaveFileAs(st0, path, written)
    ELSE WriteFile(st0, written)

\* undo
Undo(st0) ==
    IF st0.undo_stack = <<>> THEN st0
    ELSE LET n == Len(st0.undo_stack)
             st1 == [st0 EXCEPT !.redo_stack = Append(@, Snapshot(st0.data)),
                                !.data = st0.undo_stack[n],
                                !.undo_stack = SubSeq(st0.undo_stack, 1, n - 1),
                                !.dirty = TRUE]
         IN  Done(RefreshUi(st1))

\* redo had it not put the document it leaves on the undo stack
RedoNoPush(st0) ==
    IF st0.redo_stack = <<>> THEN st0
    ELSE LET n == Len(st0.redo_stack)
         IN  Done(RefreshUi([st0 EXCEPT !.data = st0.redo_stack[n],
                                        !.redo_stack = SubSeq(st0.redo_stack, 1, n - 1),
                                        !.dirty = TRUE]))

\* redo
Redo(st0) ==
    IF st0.redo_stack = <<>> THEN st0
    ELSE LET n == Len(st0.redo_stack)
             st1 == [st0 EXCEPT !.undo_stack = Append(@, Snapshot(st0.data)),
                                !.data = st0.redo_stack[n],
                                !.redo_stack = SubSeq(st0.redo_stack, 1, n - 1),
                                !.dirty = TRUE]
         IN  Done(RefreshUi(st1))

-----------------------------------------------------------------------------
(* What the user gives the handlers *)

IdInputs == {"", "t1", "t2"}
DateInputs == {"2026-02-03", "2026-2-3", "2026-02-30", "x"}
DirectionInputs == {"ida", "x"}
TitleInputs == {""}
CapacityTexts == {"1", "0", "11", "x"}
StopTexts == {" ", "B"}
BookingTexts == {<<"p", "A", "C">>, <<"p", " A", AbsentName>>, <<"p", "A", "A">>,
                 <<"", "A", "B">>}

\* the file the editor opens by itself when it starts, when there is one
LastFileTrip ==
    D([id |-> S("t1"), date |-> S("2026-02-03"), direction |-> S("ida"),
       title |-> S(""), capacity |-> I(2),
       stops |-> L(<<S("A"), S("B"), S("C")>>), bookings |-> L(<<>>)])

EmptyDocument == D([trips |-> L(<<>>)])
LastFileDocument == D([trips |-> L(<<LastFileTrip>>)])

\* a file of two trips that are not in the order of sort_trips; the first
\* has "bookings": null, which safe_load_json accepts (it tests the top
\* level only) and the booking handlers provide for
NullBookingsTrip ==
    D([id |-> S("t2"), date |-> S("2026-02-03"), direction |-> S("volta"),
       title |-> S(""), capacity |-> I(1),
       stops |-> L(<<S("C"), S("A")>>), bookings |-> None])

OtherFileDocument == D([trips |-> L(<<NullBookingsTrip, LastFileTrip>>)])

\* what a file chosen in the open dialog can hold
FileDocuments == {LastFileDocument, OtherFileDocument}

\* the file the open and save-as dialogs offer; the editor starts on a.json
Paths == {"b.json"}
PathChoices == {None} \cup {S(x) : x \in Paths}
TemplateAnswers == {"cancel", "yes", "no"}

\* __init__: the document is empty with no file, or the one
\* _auto_open_last_json loaded; no trip is selected, refresh_ui has cleared
\* the form
Init ==
    /\ data \in {EmptyDocument} \cup FileDocuments
    /\ file_path = IF data = EmptyDocument THEN None ELSE S("a.json")
    /\ saved = data
    /\ current_index = None
    /\ dirty = FALSE
    /\ undo_stack = <<>>
    /\ redo_stack = <<>>
    /\ stops_listbox = <<>>
    /\ bookings_rows = <<>>
    /\ seg_tree = <<>>
    /\ raised = FALSE
    /\ last_op = [op |-> "init", done |-> TRUE]
    /\ calls = 0

\* the state st a handler named op leaves
Becomes(op, st) ==
    /\ data' = st.data
    /\ current_index' = st.current_index
    /\ dirty' = st.dirty
    /\ undo_stack' = st.undo_stack
    /\ redo_stack' = st.redo_stack
    /\ stops_listbox' = st.stops_listbox
    /\ bookings_rows' = st.bookings_rows
    /\ seg_tree' = st.seg_tree
    /\ raised' = st.raised
    /\ last_op' = [op |-> op, done |-> st.done]
    /\ calls' = calls
    /\ file_path' = st.file_path
    /\ saved' = st.saved

\* a handler that pushes a snapshot runs while the history has room
HistoryRoom == Len(undo_stack) + Len(redo_stack) < MaxHistory

RowChoices(rows) == {None} \cup {I(i) : i \in 0 .. (Len(rows) - 1)}

new_trip ==
    /\ HistoryRoom
    /\ Len(TripsOf(data)) < MaxTrips
    /\ Becomes("new_trip", NewTrip(State))

on_select_trip ==
    \E idx \in 0 .. (Len(TripsOf(data)) - 1) :
        Becomes("on_select_trip", OnSelectTrip(State, idx))

add_stop ==
    /\ HistoryRoom
    /\ Len(stops_listbox) < MaxListbox
    /\ \E text \in StopTexts : Becomes("add_stop", AddStop(State, text))

remove_stop ==
    /\ HistoryRoom
    /\ \E sel \in RowChoices(stops_listbox) : Becomes("remove_stop", RemoveStop(State, sel))

apply_trip_changes ==
    /\ HistoryRoom
    /\ \E f_id \in IdInputs, f_date \in DateInputs, f_direction \in DirectionInputs,
          f_title \in TitleInputs, f_capacity \in CapacityTexts :
          Becomes("apply_trip_changes",
                  ApplyTripChanges(State, f_id, f_date, f_direction, f_title, f_capacity))

add_booking ==
    /\ HistoryRoom
    /\ \E b \in BookingTexts : Becomes("add_booking", AddBooking(State, b[1], b[2], b[3]))

update_booking ==
    /\ HistoryRoom
    /\ \E sel \in RowChoices(bookings_rows), b \in BookingTexts :
          Becomes("update_booking", UpdateBooking(State, sel, b[1], b[2], b[3]))

remove_booking ==
    /\ HistoryRoom
    /\ \E sel \in RowChoices(bookings_rows) :
          Becomes("remove_booking", RemoveBooking(State, sel))

new_trip_template ==
    /\ HistoryRoom
    /\ Len(TripsOf(data)) < MaxTrips
    /\ \E choice \in TemplateAnswers, extra \in BOOLEAN :
          Becomes("new_trip_template", NewTripTemplate(State, choice, extra))

\* the trip copied has an id that CopyId covers
duplicate_trip ==
    /\ HistoryRoom
    /\ Len(TripsOf(data)) < MaxTrips
    /\ IF current_index = None THEN TRUE
       ELSE IF ~IndexOk(State) THEN TRUE
       ELSE Get(CurrentTrip(State), "id", S("")).s \in CopyableIds
    /\ Becomes("duplicate_trip", DuplicateTrip(State))

delete_trip ==
    /\ HistoryRoom
    /\ \E confirmed \in BOOLEAN : Becomes("delete_trip", DeleteTrip(State, confirmed))

sort_trips == Becomes("sort_trips", SortTrips(State))

open_file ==
    \E discard \in BOOLEAN, path \in PathChoices, loaded \in FileDocuments \cup {None} :
        Becomes("open_file", OpenFile(State, discard, path, loaded))

save_file ==
    \E path \in PathChoices, written \in BOOLEAN :
        Becomes("save_file", SaveFile(State, path, written))

save_file_as ==
    \E path \in PathChoices, written \in BOOLEAN :
        Becomes("save_file_as", SaveFileAs(State, path, written))

undo == Becomes("undo", Undo(State))

redo == Becomes("redo", Redo(State))

Next ==
    \/ new_trip
    \/ on_select_trip
    \/ add_stop
    \/ remove_stop
    \/ apply_trip_changes
    \/ add_booking
    \/ update_booking
    \/ remove_booking
    \/ undo
    \/ redo

\* a session that edits the fields, stops and bookings of trips
Spec == Init /\ [][Next]_vars

\* a session that opens and saves files between edits of the bookings and
\* of the trip list
NextFile ==
    \/ open_file
    \/ save_file
    \/ save_file_as
    \/ on_select_trip
    \/ delete_trip
    \/ add_booking
    \/ update_booking
    \/ undo
    \/ redo

SpecFile == Init /\ [][NextFile]_vars

\* a session on the list of trips: trips are created, copied, removed,
\* sorted and given their fields
NextTrips ==
    \/ on_select_trip
    \/ new_trip
    \/ new_trip_template
    \/ duplicate_trip
    \/ delete_trip
    \/ sort_trips
    \/ apply_trip_changes
    \/ undo
    \/ redo

SpecTrips == Init /\ [][NextTrips]_vars

\* a session that fills the form and applies it
NextApply ==
    \/ on_select_trip
    \/ new_trip
    \/ add_stop
    \/ apply_trip_changes
    \/ duplicate_trip
    \/ undo
    \/ redo

SpecApply == Init /\ [][NextApply]_vars

\* a session that edits the bookings and walks the undo history
NextHistory ==
    \/ on_select_trip
    \/ new_trip
    \/ add_booking
    \/ update_booking
    \/ remove_booking
    \/ undo
    \/ redo

SpecHistory == Init /\ [][NextHistory]_vars

\* a session that saves, under a new name or the open one, between edits
NextSave ==
    \/ save_file
    \/ save_file_as
    \/ open_file
    \/ on_select_trip
    \/ new_trip
    \/ add_booking

SpecSave == Init /\ [][NextSave]_vars

-----------------------------------------------------------------------------
(* The trip the table was computed from, read as the claims read it *)

Computed == last_op.op = "_refresh_segments_view"

TStops ==
    IF "stops" \in DOMAIN SelectedTrip.d /\ SelectedTrip.d.stops.t = "list"
    THEN SelectedTrip.d.stops.l ELSE <<>>

TBookings ==
    IF "bookings" \in DOMAIN SelectedTrip.d /\ SelectedTrip.d.bookings.t = "list"
    THEN SelectedTrip.d.bookings.l ELSE <<>>

TStopNames == {TStops[i].s : i \in DOMAIN TStops}

\* the from and to names of booking i, "" when it has none
FromName(b) == IF b.t = "dict" /\ "from" \in DOMAIN b.d THEN b.d.from.s ELSE ""
ToName(b) == IF b.t = "dict" /\ "to" \in DOMAIN b.d THEN b.d.to.s ELSE ""

\* booking b is retained when both names resolve through the lookup idx of
\* the code, to different indices; Low and High are the ends of its span
Retained(idx, b) ==
    /\ FromName(b) \in DOMAIN idx
    /\ ToName(b) \in DOMAIN idx
    /\ idx[FromName(b)] # idx[ToName(b)]

Low(idx, b) == IF idx[FromName(b)] < idx[ToName(b)]
               THEN idx[FromName(b)] ELSE idx[ToName(b)]
High(idx, b) == IF idx[FromName(b)] < idx[ToName(b)]
                THEN idx[ToName(b)] ELSE idx[FromName(b)]

\* the trip with its bookings list replaced
WithBookings(trip, q) == D([trip.d EXCEPT !["bookings"] = L(q)])

RemoveAt(q, i) == [j \in 1 .. (Len(q) - 1) |-> IF j < i THEN q[j] ELSE q[j + 1]]

Swapped(b) == D([b.d EXCEPT !["from"] = b.d.to, !["to"] = b.d.from])

TableOf(trip) == RefreshSegmentsView(<<>>, trip).rows

-----------------------------------------------------------------------------
\* C1: for a trip with at least 2 stops, the used value of segment k is the
\* number of retained bookings whose span [low, high) of resolved stop
\* indices satisfies low <= k < high.
C1_UsedCountsCoveringBookings ==
    (Computed /\ Len(TStops) >= 2) =>
        LET idx == IdxMap(TStops)
            bks == TBookings
        IN  /\ Len(seg_tree) = Len(TStops) - 1
            /\ \A k \in 0 .. (Len(seg_tree) - 1) :
                  seg_tree[k + 1].used =
                    Cardinality({i \in DOMAIN bks :
                                   /\ Retained(idx, bks[i])
                                   /\ Low(idx, bks[i]) <= k
                                   /\ k < High(idx, bks[i])})

\* a booking from stop index 1 to the last stop of three distinct stops:
\* used = 0 on segment 0 and used = 1 on segment 1
C1_Witness ==
    /\ Computed
    /\ TStops = <<S("A"), S("B"), S("C")>>
    /\ TBookings = <<Booking("B", "C")>>
    /\ seg_tree[1].used = 0
    /\ seg_tree[2].used = 1

\* C2: a booking contributes to the table if and only if its from and its
\* to are both stop names of the trip and differ; any other booking adds 0
\* to used on every segment (the table is the one computed without it).
C2_CountedIffBothResolveAndDiffer ==
    (Computed /\ Len(TStops) >= 2) =>
        \A i \in DOMAIN TBookings :
            LET b == TBookings[i]
                without == TableOf(WithBookings(SelectedTrip, RemoveAt(TBookings, i)))
            IN  (seg_tree # without) <=>
                    (/\ FromName(b) \in TStopNames
                     /\ ToName(b) \in TStopNames
                     /\ FromName(b) # ToName(b))

\* a counted booking next to one naming an absent stop and a degenerate one
C2_Witness ==
    /\ Computed
    /\ Len(TStops) >= 2
    /\ \E i \in DOMAIN TBookings : TBookings[i] = Booking("A", AbsentName)
    /\ \E i \in DOMAIN TBookings : Retained(IdxMap(TStops), TBookings[i])
    /\ \E k \in DOMAIN seg_tree : seg_tree[k].used = 1

\* the capacity as the claim reads it: the integer the field holds or
\* spells, and 0 when the field is missing or does not parse
ClaimedCapacity ==
    IF "capacity" \notin DOMAIN SelectedTrip.d THEN 0
    ELSE LET c == SelectedTrip.d.capacity
         IN  IF c.t = "int" THEN c.n
             ELSE IF c.t = "str" /\ \E n \in DOMAIN DecStr : DecStr[n] = c.s
                  THEN (CHOOSE n \in DOMAIN DecStr : DecStr[n] = c.s) - 1
                  ELSE 0

\* C3: on every segment free = max(0, capacity - used) when capacity > 0
\* and free = 0 otherwise (missing, zero, negative or unparsable capacity
\* counts as 0); free is never negative, an overbooked segment shows 0.
C3_FreeIsClampedRemainder ==
    Computed =>
        \A k \in DOMAIN seg_tree :
            /\ seg_tree[k].free >= 0
            /\ seg_tree[k].free =
                 (IF ClaimedCapacity > 0
                  THEN Max(0, ClaimedCapacity - seg_tree[k].used)
                  ELSE 0)

\* an overbooked segment: two bookings on a segment of a trip of capacity 1
C3_Witness ==
    /\ Computed
    /\ ClaimedCapacity = 1
    /\ \E k \in DOMAIN seg_tree : seg_tree[k].used = 2 /\ seg_tree[k].free = 0

\* C4: the table has max(0, len(stops) - 1) rows, row k is labelled
\* (stops[k], stops[k + 1]), and with no bookings every row has used = 0.
C4_OneRowPerSegmentInStopOrder ==
    Computed =>
        /\ Len(seg_tree) = Max(0, Len(TStops) - 1)
        /\ \A k \in DOMAIN seg_tree :
              /\ seg_tree[k].from = TStops[k]
              /\ seg_tree[k].to = TStops[k + 1]
              /\ (TBookings = <<>>) => seg_tree[k].used = 0

C4_Witness ==
    /\ Computed
    /\ Len(TStops) = 3
    /\ Len(seg_tree) = 2
    /\ TBookings = <<>>

\* C5: swapping the from and the to of any booking gives the same table.
C5_DirectionIrrelevant ==
    Computed =>
        \A i \in DOMAIN TBookings :
            LET b == TBookings[i]
            IN  (b.t = "dict" /\ {"from", "to"} \subseteq DOMAIN b.d) =>
                  seg_tree = TableOf(WithBookings(SelectedTrip,
                                        [TBookings EXCEPT ![i] = Swapped(b)]))

\* a booking made against the stop order (from the last stop to the first)
\* that is counted on both segments
C5_Witness ==
    /\ Computed
    /\ TStops = <<S("B"), S("C"), S("A")>>
    /\ TBookings = <<Booking("A", "B")>>
    /\ seg_tree[1].used = 1
    /\ seg_tree[2].used = 1

\* C6: the computation never fails: bookings that is no list, entries that
\* are no records or lack from/to, stops that is no list and an unparsable
\* capacity all end in a normally returned table.
C6_NeverRaises == ~raised

\* a call on a trip whose bookings hold a non-record next to a counted one
C6_Witness ==
    /\ Computed
    /\ ~raised
    /\ Len(TStops) >= 2
    /\ \E i \in DOMAIN TBookings : TBookings[i].t # "dict"
    /\ \E k \in DOMAIN seg_tree : seg_tree[k].used = 1

\* C7: with fewer than 2 stops the table is empty, whatever the bookings
\* and the capacity.
C7_FewerThanTwoStopsEmptyTable ==
    (Computed /\ Len(TStops) < 2) => seg_tree = <<>>

\* a single stop, a booking and a capacity, after a call that found rows
\* of an earlier trip in the table
C7_Witness ==
    /\ calls = 1
    /\ Len(TStops) = 1
    /\ Len(TBookings) > 0
    /\ ClaimedCapacity > 0
    /\ seg_tree = <<>>

\* the first and the last index at which each stop name occurs in stops
FirstIndex ==
    [name \in TStopNames |->
        CHOOSE i \in 0 .. (Len(TStops) - 1) :
            /\ TStops[i + 1].s = name
            /\ \A j \in 0 .. (i - 1) : TStops[j + 1].s # name]

LastIndex ==
    [name \in TStopNames |->
        CHOOSE i \in 0 .. (Len(TStops) - 1) :
            /\ TStops[i + 1].s = name
            /\ \A j \in (i + 1) .. (Len(TStops) - 1) : TStops[j + 1].s # name]

\* used on segment k when every stop name resolves through idx
UsedThrough(idx, bks, k) ==
    Cardinality({i \in DOMAIN bks :
        /\ FromName(bks[i]) \in DOMAIN idx
        /\ ToName(bks[i]) \in DOMAIN idx
        /\ \/ idx[FromName(bks[i])] <= k /\ k < idx[ToName(bks[i])]
           \/ idx[ToName(bks[i])] <= k /\ k < idx[FromName(bks[i])]})

\* C8 as stated: a stop name that occurs more than once resolves to the
\* index of its first occurrence, and the computation does not fail.
C8_FirstOccurrenceWins ==
    (Computed /\ Len(TStops) >= 2) =>
        LET idx == FirstIndex
            bks == TBookings
        IN  /\ ~raised
            /\ \A k \in 0 .. (Len(TStops) - 2) :
                  seg_tree[k + 1].used = UsedThrough(idx, bks, k)

\* C8 amended: a stop name that occurs more than once resolves to the
\* index of its last occurrence, and the computation does not fail.
C8_LastOccurrenceWins ==
    (Computed /\ Len(TStops) >= 2) =>
        LET idx == LastIndex
            bks == TBookings
        IN  /\ ~raised
            /\ \A k \in 0 .. (Len(TStops) - 2) :
                  seg_tree[k + 1].used = UsedThrough(idx, bks, k)

\* stops A, B, A and a booking from A to B: the booking is counted on the
\* segment (B, A), between the last A and B
C8_Witness ==
    /\ Computed
    /\ TStops = <<S("A"), S("B"), S("A")>>
    /\ TBookings = <<Booking("A", "B")>>
    /\ seg_tree[1].used = 0
    /\ seg_tree[2].used = 1

\* C10: a second call on an unchanged trip leaves exactly the table of the
\* first call: rows are cleared, never accumulated.
C10_SecondCallSameTable == [][calls >= 1 => seg_tree' = seg_tree]_vars

C10_Witness ==
    /\ calls = 2
    /\ Len(seg_tree) = 2
    /\ \E k \in DOMAIN seg_tree : seg_tree[k].used > 0

-----------------------------------------------------------------------------
(* The editor keeps the segment table in step with the selected trip *)

MutatingHandlers ==
    {"add_booking", "update_booking", "remove_booking", "apply_trip_changes", "undo", "redo"}

TripSelected == current_index # None /\ current_index.n < Len(TripsOf(data))

\* C9: in every state reached after add_booking, update_booking,
\* remove_booking, apply_trip_changes, undo or redo went through with a trip
\* selected, the segment table shown is the occupancy computed from that
\* trip's current stops, capacity and bookings.
C9_TableFollowsEveryMutation ==
    (last_op.op \in MutatingHandlers /\ last_op.done /\ TripSelected) =>
        seg_tree = TableOf(SelectedTrip)

-----------------------------------------------------------------------------
(* The occupancy computation writes nothing but the table *)

\* C11: a call of _refresh_segments_view leaves the document (so the
\* trip's stops, capacity and bookings), the dirty flag, the selection
\* index and the undo and redo stacks as they were; only the rows of the
\* segment table change.
C11_NoWritesToInputs ==
    [][Computed' =>
          /\ data' = data
          /\ dirty' = dirty
          /\ current_index' = current_index
          /\ undo_stack' = undo_stack
          /\ redo_stack' = redo_stack
          /\ file_path' = file_path]_vars

\* a call on a trip without a bookings key replaced the stale rows
C11_Witness ==
    /\ Computed
    /\ "bookings" \notin DOMAIN SelectedTrip.d
    /\ Len(seg_tree) = 2
    /\ seg_tree # StaleRows

-----------------------------------------------------------------------------
(* The shape of the document the editor keeps *)

TripStopNames(trip) ==
    LET stops == Get(trip, "stops", L(<<>>))
    IN  IF IsList(stops) THEN {stops.l[k].s : k \in DOMAIN stops.l} ELSE {}

TripId(trip) == Get(trip, "id", S("")).s

\* C12: every booking stored in a trip has a from and a to that are stop
\* names of that trip, and they differ.
C12_BookingsNameStopsOfTrip ==
    \A i \in DOMAIN Trips :
        \A j \in DOMAIN BookingsList(Trips[i]) :
            LET b == BookingsList(Trips[i])[j]
            IN  /\ FromName(b) \in TripStopNames(Trips[i])
                /\ ToName(b) \in TripStopNames(Trips[i])
                /\ FromName(b) # ToName(b)

\* C13: every trip of the document has a non-empty id and no two trips
\* have the same id.
C13_IdsNonEmptyAndUnique ==
    /\ \A i \in DOMAIN Trips : TripId(Trips[i]) # ""
    /\ \A i, j \in DOMAIN Trips : i # j => TripId(Trips[i]) # TripId(Trips[j])

\* C14: every trip of the document has an integer capacity in 1..10 and at
\* least two stops.
C14_CapacityAndStopsInRange ==
    \A i \in DOMAIN Trips :
        LET cap == Get(Trips[i], "capacity", None)
            stops == Get(Trips[i], "stops", None)
        IN  /\ cap.t = "int" /\ cap.n >= 1 /\ cap.n <= 10
            /\ IsList(stops) /\ Len(stops.l) >= 2

-----------------------------------------------------------------------------
(* Undo, the selection and the order of the trips *)

DocumentHandlers ==
    {"new_trip", "new_trip_template", "duplicate_trip", "delete_trip",
     "apply_trip_changes", "add_booking", "update_booking", "remove_booking",
     "sort_trips"}

\* the document one undo would give
UndoneData == Undo(State).data

\* C15: right after any of the handlers above changed the document, one
\* undo gives the document as it was just before that handler ran.
C15_UndoRestoresPrevious ==
    [][(last_op'.op \in DocumentHandlers /\ data' # data) => UndoneData' = data]_vars

\* C16: the selection index is None or an index of a trip of the document,
\* and no handler ended by indexing the trips out of range.
C16_SelectionIndexValid ==
    /\ current_index = None \/ (current_index.n >= 0 /\ current_index.n < Len(Trips))
    /\ ~raised

\* C17: sort_trips leaves at position current_index the trip that was
\* there, the one shown in the form, before the sort.
C17_SortKeepsSelectedTrip ==
    [][(last_op'.op = "sort_trips" /\ current_index # None
            /\ current_index.n < Len(Trips))
          => /\ current_index' # None
             /\ current_index'.n < Len(Trips')
             /\ Trips'[current_index'.n + 1] = Trips[current_index.n + 1]]_vars

-----------------------------------------------------------------------------
(* The dirty flag, rejected changes and the undo history *)

\* C18: whenever the document differs from the content last loaded from
\* or written to the file the dirty flag is set, and the flag is cleared
\* only by a save_file (or save_file_as) or an open_file that went through.
C18_DirtyTracksUnsavedChanges ==
    [][/\ data' # saved' => dirty'
       /\ (dirty /\ ~dirty') =>
             (last_op'.op \in {"save_file", "save_file_as", "open_file"} /\ last_op'.done)]_vars

\* C19: an apply_trip_changes that does not go through (no trip selected,
\* a field fails its validation, the id is used by another trip) leaves
\* the document and the dirty flag as they were.
C19_RejectedApplyChangesNothing ==
    [][(last_op'.op = "apply_trip_changes" /\ ~last_op'.done)
          => (data' = data /\ dirty' = dirty)]_vars

\* an apply was rejected on a clean document with a trip selected and a
\* form holding two or more stops: the snapshot was pushed, nothing else
C19_Witness ==
    /\ last_op.op = "apply_trip_changes"
    /\ ~last_op.done
    /\ current_index # None
    /\ Len(stops_listbox) >= 2
    /\ Len(Trips) = 2
    /\ ~dirty
    /\ data = saved
    /\ undo_stack # <<>>

\* C20: with a non-empty undo stack, undo followed at once by redo gives
\* back the document, the undo stack and the redo stack.
C20_UndoRedoRoundTrip ==
    undo_stack # <<>> =>
        LET st == Redo(Undo(State))
        IN  /\ st.data = data
            /\ st.undo_stack = undo_stack
            /\ st.redo_stack = redo_stack

\* a redo went through and left two snapshots to undo
C20_Witness ==
    /\ last_op.op = "redo"
    /\ last_op.done
    /\ Len(undo_stack) = 2
    /\ undo_stack[1] # undo_stack[2]
    /\ data # undo_stack[2]

-----------------------------------------------------------------------------
(* The undo history across rejected handlers and across open_file *)

RejectableHandlers ==
    {"add_booking", "update_booking", "remove_booking", "apply_trip_changes",
     "delete_trip", "new_trip_template", "add_stop"}

\* C21: a handler of the set above that is rejected or cancelled and
\* leaves the document as it was also leaves the undo stack and the redo
\* stack as they were.
C21_RejectedKeepsHistory ==
    [][(last_op'.op \in RejectableHandlers /\ ~last_op'.done /\ ~raised'
            /\ data' = data)
          => (undo_stack' = undo_stack /\ redo_stack' = redo_stack)]_vars

\* C22: after open_file loaded a document the undo and redo stacks hold
\* no snapshot taken of the document that was open before, so that no
\* undo or redo can bring that document back under the new file_path.
C22_OpenFileDropsHistory ==
    [][(last_op'.op = "open_file" /\ last_op'.done)
          => (undo_stack' = <<>> /\ redo_stack' = <<>>)]_vars

-----------------------------------------------------------------------------
(* Saving *)

\* C23: save_file never changes the document; it clears the dirty flag
\* only when the write went through, and then the file holds the
\* document; when the write fails, or when no file is open and the
\* save-as dialog is cancelled (file_path stays None), the dirty flag is
\* as it was.
C23_SaveClearsDirtyOnlyOnSuccess ==
    [][last_op'.op = "save_file" =>
          /\ data' = data
          /\ IF last_op'.done
             THEN ~dirty' /\ saved' = data /\ file_path' # None
             ELSE dirty' = dirty /\ saved' = saved
          /\ (file_path = None /\ file_path' = None) =>
                (~last_op'.done /\ dirty' = dirty)]_vars

\* no file was open, a name was chosen in the save-as dialog and the write
\* failed: the document is still unsaved and dirty
C23_Witness ==
    /\ last_op.op = "save_file"
    /\ ~last_op.done
    /\ dirty
    /\ file_path = S("b.json")
    /\ saved = EmptyDocument
    /\ data # saved

====
